---- MODULE Spec2Model ----
(***************************************************************************)
(* A model of ThreadTiming (src/mandelbrot_threads/thread_timing.cpp): the *)
(* process-wide GlobalState, the five public operations called from any    *)
(* thread, the mutex that guards the run data, and the CSV files endRun    *)
(* appends to.                                                             *)
(*                                                                         *)
(* Each thread is idle or inside one call.  A call is cut into steps at    *)
(* the points where another thread can observe or change what the call     *)
(* uses: the acquisition of the mutex, the statements of a critical        *)
(* section, and each file-system operation of endRun.  The lock_guard's    *)
(* release is part of the step that runs the last statement of its scope.  *)
(* An argument is recorded in the step that first uses it.                 *)
(*                                                                         *)
(* Times: a double is held exactly, as an integer number of 1/Scale of its *)
(* unit, so 1.0025 s is 2005 and 1002.5 ms is 2005000.                     *)
(***************************************************************************)
EXTENDS Integers, Sequences, FiniteSets, TLC

VARIABLES
    runId,          \* GlobalState::runId
    numThreads,     \* GlobalState::numThreads
    runCounter,     \* GlobalState::runCounter
    label,          \* GlobalState::label
    outputPath,     \* GlobalState::outputPath
    samples,        \* GlobalState::samples
    mutex,          \* GlobalState::mutex: NoThread, or the thread that holds it
    files,          \* the file system: path -> [exists, lines]
    diag,           \* number of messages perror has put on stderr
    pc,             \* per thread: "idle" or its position inside a call
    local,          \* per thread: the locals of the call it is in
    ops,            \* history: number of calls made so far
    callLog,        \* history: the recordSample calls since the last clear
    discarded,      \* history: how many samples the last beginRun cleared
    failedSamples,  \* history: snapshot of the last flush whose fopen failed
    inRun,          \* history: a beginRun returned and no endRun since
    flushedRows     \* history: the rows of the last flush since the last clear

vars == <<runId, numThreads, runCounter, label, outputPath, samples, mutex,
          files, diag, pc, local, ops, callLog, discarded, failedSamples, inRun,
          flushedRows>>

shared == <<runId, numThreads, runCounter, label, samples>>
history == <<callLog, discarded, failedSamples, inRun, flushedRows>>

---------------------------------------------------------------------------
(* Bounds of the model. *)

\* number of threads that call into the recorder
NumWorkers == 2

\* total number of calls made in one behaviour
MaxOps == 4

---------------------------------------------------------------------------
(* Inputs. *)

Threads == 1..NumWorkers

NoThread == 0

DefaultPath == "thread_timings.csv"

Paths == {DefaultPath, "other.csv"}

Labels == {"", "a"}

ThreadCounts == {1, 2}

\* what a double is counted in: 1/Scale of a second, or of a millisecond
Scale == 2000

\* thread 0 from 1.0 s to 1.0025 s; thread 1 with end before start
SampleArgs ==
    { [threadId |-> 0, startSeconds |-> 2000, endSeconds |-> 2005],
      [threadId |-> 1, startSeconds |-> 2005, endSeconds |-> 2000] }

---------------------------------------------------------------------------
(* Values. *)

\* the 1000.0 of recordSample
MsPerSecond == 1000

\* seconds * 1000.0
ToMs(seconds) == seconds * MsPerSecond

\* struct Sample, default-initialised
NoSample == [threadId |-> 0, startMs |-> 0, endMs |-> 0, durationMs |-> 0]

\* a Sample whose duration is never below zero
MakeSampleClamped(a) ==
    [threadId   |-> a.threadId,
     startMs    |-> ToMs(a.startSeconds),
     endMs      |-> ToMs(a.endSeconds),
     durationMs |-> IF a.endSeconds < a.startSeconds THEN 0
                    ELSE ToMs(a.endSeconds - a.startSeconds)]

\* the Sample recordSample builds from its arguments
MakeSample(a) ==
    [threadId   |-> a.threadId,
     startMs    |-> ToMs(a.startSeconds),
     endMs      |-> ToMs(a.endSeconds),
     durationMs |-> ToMs(a.endSeconds - a.startSeconds)]

Abs(x) == IF x < 0 THEN -x ELSE x

\* printf("%.6f") of a millisecond value: sign, whole part, six decimals
Format6(ms) ==
    [neg    |-> ms < 0,
     whole  |-> Abs(ms) \div Scale,
     micros |-> (Abs(ms) % Scale) * (1000000 \div Scale)]

Header ==
    [kind |-> "header",
     text |-> "run_id,label,num_threads,thread_id,start_ms,end_ms,duration_ms"]

\* content a file holds before this process writes to it
OldLine == [kind |-> "old"]

\* a row that prints the shared label of the moment, not the copied one
RowSharedLabel(rid, lbl, nt, s) ==
    [kind        |-> "row",
     run_id      |-> rid,
     label       |-> label,
     num_threads |-> nt,
     thread_id   |-> s.threadId,
     start_ms    |-> Format6(s.startMs),
     end_ms      |-> Format6(s.endMs),
     duration_ms |-> Format6(s.durationMs)]

\* one data row: "%d,%s,%d,%d,%.6f,%.6f,%.6f\n"
Row(rid, lbl, nt, s) ==
    [kind        |-> "row",
     run_id      |-> rid,
     label       |-> lbl,
     num_threads |-> nt,
     thread_id   |-> s.threadId,
     start_ms    |-> Format6(s.startMs),
     end_ms      |-> Format6(s.endMs),
     duration_ms |-> Format6(s.durationMs)]

\* the rows endRun prints for its snapshot
Rows(l) ==
    [i \in 1..Len(l.localSamples) |->
        Row(l.runId, l.label, l.numThreads, l.localSamples[i])]

Absent == [exists |-> FALSE, lines |-> <<>>]

Empty == [exists |-> TRUE, lines |-> <<>>]

Old == [exists |-> TRUE, lines |-> <<OldLine>>]

\* locals of a thread that is in no call
NoLocal ==
    [localSamples |-> <<>>, label |-> "", runId |-> 0, numThreads |-> 0,
     needHeader |-> FALSE, fp |-> "", sample |-> NoSample, seen |-> <<>>,
     checked |-> ""]

\* a header check that asks only whether the file can be opened
fileExists(path) == files[path].exists

fileHasContent(path) == files[path].exists /\ Len(files[path].lines) > 0

\* an operation that does not wait for the mutex
LockableAlways == TRUE

\* the mutex can be taken
Lockable == mutex = NoThread

\* s.samples.push_back(sample), on the vector state the call read
PushBack(seen, sample) == Append(seen, sample)

\* ++s.runCounter
NextRunId(counter) == counter + 1

\* a beginRun that keeps the buffer
ClearNothing(buffer) == buffer

\* s.samples.clear()
Clear(buffer) == <<>>

\* an endRun without the early return
IsEmptyNever(buffer) == FALSE

\* s.samples.empty()
IsEmpty(buffer) == Len(buffer) = 0

\* an endRun that moves the buffer out instead of copying it
AfterMove(buffer) == <<>>

\* s.samples once localSamples = s.samples has copied it
AfterCopy(buffer) == buffer

\* a failed fopen that is not reported
PerrorSilent(messages) == messages

\* stderr once perror has reported a failed fopen
Perror(messages) == messages + 1

\* an endRun that writes the default path whatever outputPath is
ReadDefaultPath == {DefaultPath}

\* a read of s.outputPath: unordered with a setOutputPath in flight it is a
\* data race, and any path may come out
ReadPath ==
    IF \E u \in Threads : pc[u] = "sop_write" THEN Paths ELSE {outputPath}

---------------------------------------------------------------------------
(* The state after construction. *)

Init ==
    /\ runId = 0
    /\ numThreads = 0
    /\ runCounter = 0
    /\ label = ""
    /\ outputPath = DefaultPath
    /\ samples = <<>>
    /\ mutex = NoThread
    /\ \E f \in {Absent, Empty, Old} : files = [p \in Paths |-> f]
    /\ diag = 0
    /\ pc = [t \in Threads |-> "idle"]
    /\ local = [t \in Threads |-> NoLocal]
    /\ ops = 0
    /\ callLog = <<>>
    /\ discarded = 0
    /\ failedSamples = <<>>
    /\ inRun = FALSE
    /\ flushedRows = <<>>

Entries == {"sop_write", "sl_lock", "br_lock", "rs_lock", "er_lock"}

goto(t, where) == pc' = [pc EXCEPT ![t] = where]

\* thread t calls one of the five operations
Call(t) ==
    /\ pc[t] = "idle"
    /\ ops < MaxOps
    /\ ops' = ops + 1
    /\ \E e \in Entries : goto(t, e)
    /\ UNCHANGED <<shared, outputPath, mutex, files, diag, local, history>>

\* setOutputPath(path)
setOutputPath(t) ==
    /\ pc[t] = "sop_write"
    /\ \E path \in Paths :
         outputPath' \in
            IF \E u \in Threads \ {t} : pc[u] = "sop_write" THEN Paths ELSE {path}
    /\ goto(t, "idle")
    /\ UNCHANGED <<shared, mutex, files, diag, local, ops, history>>

\* setRunLabel(label)
setRunLabel(t) ==
    /\ pc[t] = "sl_lock"
    /\ Lockable
    /\ \E l \in Labels : label' = l
    /\ goto(t, "idle")
    /\ UNCHANGED <<runId, numThreads, runCounter, samples, outputPath, mutex,
                   files, diag, local, ops, history>>

\* beginRun(n): lock, samples.clear(), numThreads = n
beginRunClear(t) ==
    /\ pc[t] = "br_lock"
    /\ Lockable
    /\ mutex' = t
    /\ samples' = Clear(samples)
    /\ \E n \in ThreadCounts : numThreads' = n
    /\ callLog' = <<>>
    /\ discarded' = Len(samples)
    /\ failedSamples' = <<>>
    /\ flushedRows' = <<>>
    /\ goto(t, "br_incr")
    /\ UNCHANGED <<runId, runCounter, label, outputPath, files, diag, local,
                   ops, inRun>>

\* beginRun(n): ++s.runCounter
beginRunIncr(t) ==
    /\ pc[t] = "br_incr"
    /\ runCounter' = NextRunId(runCounter)
    /\ goto(t, "br_set")
    /\ UNCHANGED <<runId, numThreads, label, samples, outputPath, mutex, files,
                   diag, local, ops, history>>

\* a beginRun that stores the counter's value from before the increment
beginRunSetOld(t) ==
    /\ pc[t] = "br_set"
    /\ runId' = runCounter - 1
    /\ mutex' = NoThread
    /\ inRun' = TRUE
    /\ pc' = [pc EXCEPT ![t] = "idle"]
    /\ UNCHANGED <<numThreads, runCounter, label, samples, outputPath, files,
                   diag, local, ops, callLog, discarded, failedSamples,
                   flushedRows>>

\* beginRun(n): s.runId = the incremented counter, unlock
beginRunSet(t) ==
    /\ pc[t] = "br_set"
    /\ runId' = runCounter
    /\ mutex' = NoThread
    /\ inRun' = TRUE
    /\ goto(t, "idle")
    /\ UNCHANGED <<numThreads, runCounter, label, samples, outputPath, files,
                   diag, local, ops, callLog, discarded, failedSamples,
                   flushedRows>>

\* recordSample(a): lock, build the Sample, push_back reads the vector
recordSampleLock(t) ==
    /\ pc[t] = "rs_lock"
    /\ Lockable
    /\ mutex' = t
    /\ \E a \in SampleArgs :
         local' = [local EXCEPT ![t].sample = MakeSample(a), ![t].seen = samples]
    /\ goto(t, "rs_push")
    /\ UNCHANGED <<shared, outputPath, files, diag, ops, history>>

\* history of one recordSample call: its sample, the label and the path in
\* effect, and whether another thread was inside recordSample meanwhile
LogEntry(t) ==
    [sample     |-> local[t].sample,
     label      |-> label,
     path       |-> outputPath,
     overlapped |-> \E u \in Threads \ {t} : pc[u] \in {"rs_lock", "rs_push"}]

\* a recordSample that takes no sample before the first beginRun
recordSamplePushInRun(t) ==
    /\ pc[t] = "rs_push"
    /\ samples' = IF runCounter = 0 THEN samples
                  ELSE Append(local[t].seen, local[t].sample)
    /\ callLog' = Append(callLog, LogEntry(t))
    /\ mutex' = NoThread
    /\ local' = [local EXCEPT ![t] = NoLocal]
    /\ pc' = [pc EXCEPT ![t] = "idle"]
    /\ UNCHANGED <<runId, numThreads, runCounter, label, outputPath, files,
                   diag, ops, discarded, failedSamples, inRun, flushedRows>>

\* recordSample(a): push_back stores the vector, unlock
recordSamplePush(t) ==
    /\ pc[t] = "rs_push"
    /\ samples' = PushBack(local[t].seen, local[t].sample)
    /\ callLog' = Append(callLog, LogEntry(t))
    /\ mutex' = NoThread
    /\ local' = [local EXCEPT ![t] = NoLocal]
    /\ goto(t, "idle")
    /\ UNCHANGED <<runId, numThreads, runCounter, label, outputPath, files,
                   diag, ops, discarded, failedSamples, inRun, flushedRows>>

\* an endRun that returns on the empty buffer with the mutex still locked
endRunCopyLeaks(t) ==
    /\ pc[t] = "er_lock"
    /\ Lockable
    /\ mutex' = t
    /\ IF IsEmpty(samples)
         THEN /\ pc' = [pc EXCEPT ![t] = "idle"]
              /\ inRun' = FALSE
              /\ UNCHANGED <<samples, local>>
         ELSE /\ local' = [local EXCEPT ![t].localSamples = samples]
              /\ samples' = AfterCopy(samples)
              /\ pc' = [pc EXCEPT ![t] = "er_snap"]
              /\ UNCHANGED inRun
    /\ UNCHANGED <<runId, numThreads, runCounter, label, outputPath, files,
                   diag, ops, callLog, discarded, failedSamples, flushedRows>>

\* endRun: lock; if the buffer is empty return, else localSamples = s.samples
endRunCopy(t) ==
    /\ pc[t] = "er_lock"
    /\ Lockable
    /\ IF IsEmpty(samples)
         THEN /\ goto(t, "idle")
              /\ inRun' = FALSE
              /\ UNCHANGED <<samples, mutex, local>>
         ELSE /\ mutex' = t
              /\ local' = [local EXCEPT ![t].localSamples = samples]
              /\ samples' = AfterCopy(samples)
              /\ goto(t, "er_snap")
              /\ UNCHANGED inRun
    /\ UNCHANGED <<runId, numThreads, runCounter, label, outputPath, files,
                   diag, ops, callLog, discarded, failedSamples, flushedRows>>

\* an endRun whose lock_guard lives to the end of the function
endRunSnapHolds(t) ==
    /\ pc[t] = "er_snap"
    /\ local' = [local EXCEPT ![t].label = label, ![t].runId = runId,
                              ![t].numThreads = numThreads]
    /\ pc' = [pc EXCEPT ![t] = "er_check"]
    /\ UNCHANGED <<shared, outputPath, mutex, files, diag, ops, history>>

\* endRun: label, runId, numThreads = the shared ones; unlock
endRunSnap(t) ==
    /\ pc[t] = "er_snap"
    /\ local' = [local EXCEPT ![t].label = label, ![t].runId = runId,
                              ![t].numThreads = numThreads]
    /\ mutex' = NoThread
    /\ goto(t, "er_check")
    /\ UNCHANGED <<shared, outputPath, files, diag, ops, history>>

\* endRun: needHeader = !fileHasContent(s.outputPath); `checked` keeps the
\* path this read of s.outputPath gave
endRunCheck(t) ==
    /\ pc[t] = "er_check"
    /\ \E p \in ReadPath :
         local' = [local EXCEPT ![t].needHeader = ~fileHasContent(p),
                                ![t].checked = p]
    /\ goto(t, "er_open")
    /\ UNCHANGED <<shared, outputPath, mutex, files, diag, ops, history>>

\* endRun: fp = fopen(s.outputPath, "a"); on failure perror and return
endRunOpen(t) ==
    /\ pc[t] = "er_open"
    /\ \E p \in ReadPath, ok \in BOOLEAN :
         IF ok
           THEN /\ files' = [files EXCEPT ![p].exists = TRUE]
                /\ local' = [local EXCEPT ![t].fp = p]
                /\ goto(t, "er_write")
                /\ UNCHANGED <<diag, failedSamples, inRun>>
           ELSE /\ diag' = Perror(diag)
                /\ failedSamples' = local[t].localSamples
                /\ inRun' = FALSE
                /\ local' = [local EXCEPT ![t] = NoLocal]
                /\ goto(t, "idle")
                /\ UNCHANGED files
    /\ UNCHANGED <<shared, outputPath, mutex, ops, callLog, discarded,
                   flushedRows>>

\* an endRun that empties the buffer once it has written it
endRunWriteClears(t) ==
    /\ pc[t] = "er_write"
    /\ LET p == local[t].fp
           out == (IF local[t].needHeader THEN <<Header>> ELSE <<>>) \o Rows(local[t])
       IN files' = [files EXCEPT ![p].lines = @ \o out]
    /\ samples' = <<>>
    /\ flushedRows' = Rows(local[t])
    /\ inRun' = FALSE
    /\ local' = [local EXCEPT ![t] = NoLocal]
    /\ pc' = [pc EXCEPT ![t] = "idle"]
    /\ UNCHANGED <<runId, numThreads, runCounter, label, outputPath, mutex,
                   diag, ops, callLog, discarded, failedSamples>>

\* endRun: the header if needed, one row per sample of the snapshot, fclose
endRunWrite(t) ==
    /\ pc[t] = "er_write"
    /\ LET p == local[t].fp
           out == (IF local[t].needHeader THEN <<Header>> ELSE <<>>) \o Rows(local[t])
       IN files' = [files EXCEPT ![p].lines = @ \o out]
    /\ flushedRows' = Rows(local[t])
    /\ inRun' = FALSE
    /\ local' = [local EXCEPT ![t] = NoLocal]
    /\ goto(t, "idle")
    /\ UNCHANGED <<shared, outputPath, mutex, diag, ops, callLog, discarded,
                   failedSamples>>

\* one step of the call thread t is in
Step(t) ==
    \/ setOutputPath(t)
    \/ setRunLabel(t)
    \/ beginRunClear(t)
    \/ beginRunIncr(t)
    \/ beginRunSet(t)
    \/ recordSampleLock(t)
    \/ recordSamplePush(t)
    \/ endRunCopy(t)
    \/ endRunSnap(t)
    \/ endRunCheck(t)
    \/ endRunOpen(t)
    \/ endRunWrite(t)

\* any threads, any interleaving
Next == \E t \in Threads : Call(t) \/ Step(t)

Spec == Init /\ [][Next]_vars

\* a call is made only when no other call is in progress
CallSeq(t) ==
    /\ \A u \in Threads : pc[u] = "idle"
    /\ Call(t)

NextSeq == \E t \in Threads : CallSeq(t) \/ Step(t)

\* the calls come one after another (from any thread)
SpecSeq == Init /\ [][NextSeq]_vars

\* every thread that can take a step of its call takes one in the end: the
\* scheduler runs every runnable thread, the file operations complete
SpecFair == Spec /\ \A t \in Threads : WF_vars(Step(t))

\* thread t calls one of the four operations that take the mutex
CallLocked(t) ==
    /\ Call(t)
    /\ pc'[t] # "sop_write"

\* one step of a call that is no setOutputPath
StepLocked(t) ==
    \/ setRunLabel(t)
    \/ beginRunClear(t)
    \/ beginRunIncr(t)
    \/ beginRunSet(t)
    \/ recordSampleLock(t)
    \/ recordSamplePush(t)
    \/ endRunCopy(t)
    \/ endRunSnap(t)
    \/ endRunCheck(t)
    \/ endRunOpen(t)
    \/ endRunWrite(t)

NextOnePath == \E t \in Threads : CallLocked(t) \/ StepLocked(t)

\* any threads, any interleaving, outputPath set once and for all before
SpecOnePath == Init /\ [][NextOnePath]_vars

---------------------------------------------------------------------------
(* Vocabulary of the properties. *)

\* thread t takes the step that leaves position `from`
Did(t, from) == pc[t] = from /\ pc'[t] # from

\* the positions of endRun
EndRunPcs == {"er_lock", "er_snap", "er_check", "er_open", "er_write"}

IsRow(line) == line.kind = "row"

\* the data rows among some lines
DataRows(lines) == SelectSeq(lines, IsRow)

\* the lines path p gains in this step
Gained(p) == SubSeq(files'[p].lines, Len(files[p].lines) + 1, Len(files'[p].lines))

\* row r is the printed form of sample s
RowIsOf(r, s) ==
    /\ IsRow(r)
    /\ r.thread_id = s.threadId
    /\ r.start_ms = Format6(s.startMs)
    /\ r.end_ms = Format6(s.endMs)
    /\ r.duration_ms = Format6(s.durationMs)

\* rows is one row per sample of buffer, in order
RowsAreOf(rows, buffer) ==
    /\ Len(rows) = Len(buffer)
    /\ \A i \in 1..Len(rows) : RowIsOf(rows[i], buffer[i])

IsPrefix(a, b) == Len(a) <= Len(b) /\ SubSeq(b, 1, Len(a)) = a

\* the samples of the recordSample calls since the last clear, in call order
LogSamples == [i \in 1..Len(callLog) |-> callLog[i].sample]

AllIdle == \A t \in Threads : pc[t] = "idle"

\* the file has at most one line that is no data row, and it is its first
HeaderOnce(file) ==
    \A i \in 1..Len(file.lines) :
        IF i = 1 THEN file.lines[i] \in {Header, OldLine} ELSE IsRow(file.lines[i])

\* rows r and q print the same sample of the same run
SameSample(r, q) ==
    /\ r.run_id = q.run_id
    /\ r.num_threads = q.num_threads
    /\ r.thread_id = q.thread_id
    /\ r.start_ms = q.start_ms
    /\ r.end_ms = q.end_ms
    /\ r.duration_ms = q.duration_ms

\* s is what recordSample stores for one of the argument triples
Stored(s) ==
    /\ \E a \in SampleArgs :
         /\ s.threadId = a.threadId
         /\ s.startMs = 1000 * a.startSeconds
         /\ s.endMs = 1000 * a.endSeconds
    /\ s.durationMs = s.endMs - s.startMs

\* r prints the milliseconds of the argument triple of its thread_id
Printed(r) ==
    IF r.thread_id = 0
      THEN /\ r.start_ms = [neg |-> FALSE, whole |-> 1000, micros |-> 0]
           /\ r.end_ms = [neg |-> FALSE, whole |-> 1002, micros |-> 500000]
           /\ r.duration_ms = [neg |-> FALSE, whole |-> 2, micros |-> 500000]
      ELSE /\ r.start_ms = [neg |-> FALSE, whole |-> 1002, micros |-> 500000]
           /\ r.end_ms = [neg |-> FALSE, whole |-> 1000, micros |-> 0]
           /\ r.duration_ms = [neg |-> TRUE, whole |-> 2, micros |-> 500000]

---------------------------------------------------------------------------
(* C1: K threads that each call recordSample once between a beginRun and   *)
(* an endRun give exactly K rows: in every interleaving the buffer holds   *)
(* exactly the samples of the recordSample calls since the last clear, one *)
(* each and in the order the calls took the lock (none lost, none twice);  *)
(* endRun's snapshot is that buffer, and the flush appends one row per     *)
(* sample of the snapshot.                                                 *)
C1_NoSampleLostOrDuplicated ==
    [][ /\ samples' = LogSamples'
        /\ \A t \in Threads :
             /\ Did(t, "er_lock") /\ pc'[t] = "er_snap"
                  => local'[t].localSamples = LogSamples
             /\ Did(t, "er_write")
                  => RowsAreOf(DataRows(Gained(local[t].fp)), local[t].localSamples)
      ]_vars

\* two recordSample calls that overlapped in time, flushed as two rows
C1_Witness ==
    /\ AllIdle
    /\ Len(callLog) = 2
    /\ callLog[1].overlapped
    /\ \E p \in Paths : RowsAreOf(DataRows(files[p].lines), LogSamples)

(* C2: calls one after another: the number of data rows an endRun appends  *)
(* is the number of recordSample calls since the last beginRun, whatever   *)
(* the buffer held before that beginRun.                                   *)
C2_RowCountIsCallCount ==
    [][ \A t \in Threads :
          Did(t, "er_write")
            => /\ Len(DataRows(Gained(local[t].fp))) = Len(callLog)
               /\ Len(Gained(local[t].fp)) <= Len(callLog) + 1
      ]_vars

\* a beginRun cleared a non-empty buffer, and the flush of the run it began
\* wrote as many rows as there were recordSample calls after it
C2_Witness ==
    /\ AllIdle
    /\ discarded > 0
    /\ Len(callLog) > 0
    /\ runId = 1
    /\ \E p \in Paths :
         /\ Len(DataRows(files[p].lines)) = Len(callLog)
         /\ \A i \in 1..Len(files[p].lines) :
              IsRow(files[p].lines[i]) => files[p].lines[i].run_id = 1

(* C3: runId is 0 at first, the step of beginRun that stores runId raises  *)
(* it by exactly 1 in every interleaving, and no other step changes it.    *)
C3_RunIdCountsBeginRuns ==
    /\ runId = 0
    /\ [][ /\ \A t \in Threads : Did(t, "br_set") => runId' = runId + 1
           /\ (\A t \in Threads : ~Did(t, "br_set")) => runId' = runId
         ]_vars

\* two beginRun calls have returned
C3_Witness == AllIdle /\ runId = 2

(* C4: calls one after another: a flush to a path that is absent or empty  *)
(* appends the header and then one row per buffered sample, a flush to a   *)
(* path with content appends the rows alone; so a file that held nothing   *)
(* at first has exactly one header line, its first line.                   *)
C4_HeaderRoundTrip ==
    [][ /\ \A t \in Threads :
             Did(t, "er_write")
               => LET p == local[t].fp
                  IN  /\ RowsAreOf(DataRows(Gained(p)), samples)
                      /\ Gained(p) =
                           (IF files[p].lines = <<>> THEN <<Header>> ELSE <<>>)
                              \o DataRows(Gained(p))
        /\ \A p \in Paths : HeaderOnce(files'[p])
      ]_vars

\* two flushes of the same buffer to a path that held nothing: one header,
\* then the rows of the first flush, then those of the second
C4_Witness ==
    /\ AllIdle
    /\ Len(samples) > 0
    /\ \E p \in Paths :
         /\ Len(files[p].lines) = 1 + 2 * Len(samples)
         /\ files[p].lines[1] = Header
         /\ HeaderOnce(files[p])

(* C5: an endRun that finds the buffer empty returns at once and writes    *)
(* nothing: no file is created or changed and nothing is reported; a file  *)
(* changes only in the open or write step of an endRun whose snapshot      *)
(* holds a sample.                                                         *)
C5_EmptyFlushWritesNothing ==
    [][ /\ \A t \in Threads :
             Did(t, "er_lock") /\ samples = <<>>
               => pc'[t] = "idle" /\ files' = files /\ diag' = diag
        /\ files' # files
             => \E t \in Threads :
                  /\ pc[t] \in {"er_open", "er_write"}
                  /\ pc'[t] # pc[t]
                  /\ local[t].localSamples # <<>>
      ]_vars

\* after a beginRun an endRun has returned on the empty buffer, and the
\* output file still does not exist
C5_Witness ==
    /\ AllIdle
    /\ runId = 1
    /\ ~inRun
    /\ samples = <<>>
    /\ diag = 0
    /\ \A p \in Paths : files[p] = Absent

(* C6: every row of one flush carries the label endRun copied under the   *)
(* lock, which is the shared label of that instant, whatever the label was *)
(* when the samples were recorded.                                         *)
C6_LabelSnapshot ==
    [][ \A t \in Threads :
          /\ Did(t, "er_snap") => local'[t].label = label
          /\ Did(t, "er_write")
               => LET rows == DataRows(Gained(local[t].fp))
                  IN  /\ Len(rows) = Len(local[t].localSamples)
                      /\ \A i \in 1..Len(rows) : rows[i].label = local[t].label
      ]_vars

\* a sample recorded under the label "" is in the file with the label "a"
C6_Witness ==
    /\ AllIdle
    /\ runCounter = 0
    /\ Len(callLog) = 1
    /\ callLog[1].label = ""
    /\ label = "a"
    /\ \E p \in Paths :
         /\ Len(DataRows(files[p].lines)) = 1
         /\ DataRows(files[p].lines)[1].label = "a"

(* C7: when fopen fails endRun reports once on stderr and returns: no file *)
(* changes, and the run data, the buffer, the path and the mutex are as    *)
(* before; no step of endRun changes runId, numThreads, runCounter, label, *)
(* outputPath or the buffer, so the state after the failed call is the     *)
(* state before it.                                                        *)
C7_OpenFailureIsLocal ==
    [][ \A t \in Threads :
          /\ Did(t, "er_open") /\ pc'[t] = "idle"
               => /\ diag' = diag + 1
                  /\ files' = files
                  /\ mutex' = mutex
          /\ pc[t] \in EndRunPcs /\ pc'[t] # pc[t]
               => UNCHANGED <<runId, numThreads, runCounter, label, outputPath,
                              samples>>
      ]_vars

\* a flush has failed: one message, no file, the buffer still filled
C7_Witness ==
    /\ AllIdle
    /\ diag = 1
    /\ samples # <<>>
    /\ failedSamples = samples
    /\ \A p \in Paths : files[p] = Absent

(* C8 as stated: calls one after another: a flush that writes rows writes  *)
(* no sample of an earlier flush whose fopen failed (no beginRun between). *)
C8_FailedFlushIsDropped ==
    [][ \A t \in Threads :
          Did(t, "er_write") /\ failedSamples # <<>>
            => ~IsPrefix(failedSamples, local[t].localSamples)
      ]_vars

(* C8 amended: calls one after another: a failed fopen writes nothing and  *)
(* leaves the buffer as it is, the samples of the failed flush stay at the *)
(* front of the buffer until the next beginRun, and the next flush whose   *)
(* fopen succeeds writes them, as its first rows.                          *)
C8_FailedFlushIsRetained ==
    [][ /\ IsPrefix(failedSamples', samples')
        /\ \A t \in Threads :
             /\ Did(t, "er_open") /\ pc'[t] = "idle"
                  => /\ files' = files
                     /\ samples' = samples
                     /\ failedSamples' = samples
                     /\ samples # <<>>
             /\ Did(t, "er_write")
                  => /\ IsPrefix(failedSamples, local[t].localSamples)
                     /\ RowsAreOf(DataRows(Gained(local[t].fp)),
                                  local[t].localSamples)
      ]_vars

\* record, a flush that fails, record, a flush that writes both samples
C8_Witness ==
    /\ AllIdle
    /\ ops = 4
    /\ diag = 1
    /\ Len(failedSamples) = 1
    /\ Len(samples) = 2
    /\ \E p \in Paths : RowsAreOf(DataRows(files[p].lines), samples)

(* C9 as stated: calls one after another: the buffer holds a sample only   *)
(* after a beginRun has returned and before the next endRun has.           *)
C9_NonEmptyOnlyInRun == samples # <<>> => inRun

(* C9 amended: the buffer is empty at first and after the clear of every   *)
(* beginRun, and nothing else empties it: recordSample fills it in every   *)
(* lifecycle state and no step of endRun changes it, so it keeps its       *)
(* samples after a completed endRun until the next beginRun.               *)
C9_OnlyBeginRunEmpties ==
    /\ samples = <<>>
    /\ [][ /\ samples # <<>> /\ samples' = <<>>
                => \E t \in Threads : Did(t, "br_lock")
           /\ \A t \in Threads :
                /\ Did(t, "br_lock") => samples' = <<>>
                /\ Did(t, "rs_push") => samples' # <<>>
                /\ pc[t] \in EndRunPcs /\ pc'[t] # pc[t] => samples' = samples
         ]_vars

\* beginRun, recordSample, a completed flush: the buffer is still filled
C9_Witness ==
    /\ AllIdle
    /\ ~inRun
    /\ runId = 1
    /\ samples # <<>>
    /\ \E p \in Paths :
         /\ RowsAreOf(DataRows(files[p].lines), samples)
         /\ DataRows(files[p].lines)[1].run_id = 1

(* C10: calls one after another: setOutputPath changes outputPath and      *)
(* nothing else (not the buffer, the run data, the label or any file), and *)
(* an endRun opens and writes the current outputPath alone, appending one  *)
(* row for every buffered sample.                                          *)
C10_PathChangeOnlyRedirects ==
    [][ \A t \in Threads :
          /\ Did(t, "sop_write")
               => UNCHANGED <<samples, runId, numThreads, runCounter, label,
                              files, diag>>
          /\ Did(t, "er_open") /\ pc'[t] = "er_write"
               => /\ local'[t].fp = outputPath
                  /\ \A q \in Paths \ {outputPath} : files'[q] = files[q]
          /\ Did(t, "er_write")
               => /\ local[t].fp = outputPath
                  /\ \A q \in Paths \ {outputPath} : files'[q] = files[q]
                  /\ RowsAreOf(DataRows(Gained(outputPath)), samples)
      ]_vars

\* a sample recorded while the path was the default one is flushed, after a
\* setOutputPath, to the new path; the old path does not even exist
C10_Witness ==
    /\ AllIdle
    /\ outputPath # DefaultPath
    /\ Len(callLog) > 0
    /\ \A i \in 1..Len(callLog) : callLog[i].path = DefaultPath
    /\ RowsAreOf(DataRows(files[outputPath].lines), LogSamples)
    /\ files[DefaultPath] = Absent

(* C11: calls one after another: endRun leaves the buffer as it is, so a   *)
(* second endRun with no beginRun in between appends the rows of the first *)
(* again (same run_id, same samples, same order) and, after them, one row  *)
(* for every sample recorded between the two calls.                        *)
C11_SecondFlushRepeatsFirst ==
    [][ \A t \in Threads :
          Did(t, "er_write")
            => LET rows == DataRows(Gained(local[t].fp))
               IN  /\ samples' = samples
                   /\ RowsAreOf(rows, samples)
                   /\ Len(flushedRows) <= Len(rows)
                   /\ \A i \in 1..Len(flushedRows) : SameSample(rows[i], flushedRows[i])
      ]_vars

\* recordSample, endRun, recordSample, endRun with no beginRun: the file has
\* the first sample, then the first again, then the second
C11_Witness ==
    /\ AllIdle
    /\ runCounter = 0
    /\ Len(samples) = 2
    /\ Len(flushedRows) = 2
    /\ \E p \in Paths :
         LET rows == DataRows(files[p].lines)
         IN  /\ Len(rows) = 3
             /\ RowIsOf(rows[1], samples[1])
             /\ RowsAreOf(SubSeq(rows, 2, 3), samples)

(* C12: beginRun discards all that is buffered: its clear leaves the       *)
(* buffer empty, every snapshot endRun takes holds the samples recorded    *)
(* since the last clear and no other, and a flush writes the rows of its   *)
(* snapshot alone.                                                         *)
C12_BeginRunDiscards ==
    [][ \A t \in Threads :
          /\ Did(t, "br_lock") => samples' = <<>> /\ discarded' = Len(samples)
          /\ Did(t, "er_lock") /\ pc'[t] = "er_snap"
               => /\ Len(local'[t].localSamples) = Len(callLog)
                  /\ \A i \in 1..Len(callLog) :
                       local'[t].localSamples[i] = callLog[i].sample
          /\ Did(t, "er_write")
               => Len(DataRows(Gained(local[t].fp))) = Len(local[t].localSamples)
      ]_vars

\* the sample of thread 0 was discarded by the beginRun, the sample of
\* thread 1 was recorded after it: the file has the row of thread 1 alone
C12_Witness ==
    /\ AllIdle
    /\ discarded = 1
    /\ Len(callLog) = 1
    /\ callLog[1].sample.threadId = 1
    /\ \E p \in Paths :
         /\ Len(DataRows(files[p].lines)) = 1
         /\ DataRows(files[p].lines)[1].thread_id = 1
         /\ DataRows(files[p].lines)[1].run_id = 1
    /\ \A p \in Paths : Len(DataRows(files[p].lines)) <= 1

(* C13: no thread holds the mutex in endRun's header check, open or write: *)
(* the mutex is held only inside the critical sections, so it is free for  *)
(* the other threads while one does file I/O; and the rows of a flush are  *)
(* the rows of its snapshot, whatever was recorded after it.               *)
C13_NoLockDuringIO ==
    [][ /\ \A t \in Threads :
             /\ pc'[t] \in {"er_check", "er_open", "er_write"} => mutex' # t
             /\ Did(t, "er_write")
                  => DataRows(Gained(local[t].fp)) = Rows(local[t])
        /\ mutex' # NoThread
             => pc'[mutex'] \in {"br_incr", "br_set", "rs_push", "er_snap"}
        /\ (\A t \in Threads : pc'[t] \notin {"br_incr", "br_set", "rs_push", "er_snap"})
             => mutex' = NoThread
      ]_vars

\* thread 1 is about to write its snapshot; a recordSample that ran during
\* its file I/O has returned, and its sample is not in the snapshot
C13_Witness ==
    /\ pc[1] = "er_write"
    /\ pc[2] = "idle"
    /\ mutex = NoThread
    /\ Len(samples) > Len(local[1].localSamples)
    /\ IsPrefix(local[1].localSamples, samples)

(* C14: with outputPath left alone, every file has at most one line that   *)
(* is no data row, its first, also when endRun calls overlap.              *)
C14_HeaderOnceConcurrently == \A p \in Paths : HeaderOnce(files[p])

(* C15: the snapshot is taken at one instant of the shared state: when     *)
(* endRun copies label, runId and numThreads, they and the buffer it       *)
(* copied are those of the shared state of that moment, no beginRun is     *)
(* half done then, and every row of the flush carries these three values.  *)
C15_SnapshotIsAtomic ==
    [][ \A t \in Threads :
          /\ Did(t, "er_snap")
               => /\ local'[t].localSamples = samples
                  /\ local'[t].label = label
                  /\ local'[t].runId = runId
                  /\ local'[t].numThreads = numThreads
                  /\ runId = runCounter
                  /\ \A u \in Threads : pc[u] \notin {"br_incr", "br_set", "rs_push"}
          /\ Did(t, "er_write")
               => LET rows == DataRows(Gained(local[t].fp))
                  IN  /\ RowsAreOf(rows, local[t].localSamples)
                      /\ \A i \in 1..Len(rows) :
                           /\ rows[i].run_id = local[t].runId
                           /\ rows[i].label = local[t].label
                           /\ rows[i].num_threads = local[t].numThreads
      ]_vars

\* a beginRun ran from start to end while thread 1 was in its file I/O: the
\* snapshot still has the samples and the runId of the run before
C15_Witness ==
    /\ pc[1] = "er_write"
    /\ pc[2] = "idle"
    /\ samples = <<>>
    /\ runId = local[1].runId + 1
    /\ numThreads # local[1].numThreads
    /\ local[1].localSamples # <<>>

(* C16: an endRun opens for appending the path whose content it examined   *)
(* to decide on the header.                                                *)
C16_CheckedPathIsOpened ==
    [][ \A t \in Threads :
          Did(t, "er_open") /\ pc'[t] = "er_write"
            => local'[t].fp = local[t].checked
      ]_vars

(* C17: under fair scheduling every call returns: a thread inside a call   *)
(* is idle again later; a thread that is in no call holds no mutex; and a  *)
(* thread inside a call can take its next step, or it waits for the mutex  *)
(* and the thread that holds the mutex can take its next step.             *)
C17_EveryCallReturns ==
    /\ \A t \in Threads : (pc[t] # "idle") ~> (pc[t] = "idle")
    /\ [](\A t \in Threads : pc[t] = "idle" => mutex # t)
    /\ [](\A t \in Threads :
            pc[t] # "idle"
              => \/ ENABLED Step(t)
                 \/ /\ pc[t] \in {"sl_lock", "br_lock", "rs_lock", "er_lock"}
                    /\ mutex \in Threads \ {t}
                    /\ ENABLED Step(mutex))

\* thread 1 waits for the mutex thread 2 holds in endRun
C17_Witness ==
    /\ pc[1] \in {"sl_lock", "br_lock", "rs_lock", "er_lock"}
    /\ pc[2] = "er_snap"
    /\ mutex = 2

(* C18: recordSample appends its sample whatever the lifecycle state, and  *)
(* changes neither runId nor numThreads; a flush whose snapshot has the    *)
(* runId 0 of before the first beginRun writes one row per sample, each    *)
(* with run_id 0 and num_threads 0.                                        *)
C18_RecordInEveryState ==
    [][ \A t \in Threads :
          /\ Did(t, "rs_push")
               => /\ samples' = Append(samples, local[t].sample)
                  /\ runId' = runId
                  /\ numThreads' = numThreads
          /\ Did(t, "er_write") /\ local[t].runId = 0
               => LET rows == DataRows(Gained(local[t].fp))
                  IN  /\ RowsAreOf(rows, local[t].localSamples)
                      /\ \A i \in 1..Len(rows) :
                           rows[i].run_id = 0 /\ rows[i].num_threads = 0
      ]_vars

\* no beginRun yet: one sample recorded and flushed with run_id 0, and a
\* second one recorded after that flush, behind the first in the buffer
C18_Witness ==
    /\ AllIdle
    /\ runCounter = 0
    /\ Len(samples) = 2
    /\ Len(flushedRows) = 1
    /\ RowIsOf(flushedRows[1], samples[1])
    /\ flushedRows[1].run_id = 0
    /\ flushedRows[1].num_threads = 0

(* C19: the sample recordSample stores has startMs = 1000 * start, endMs = *)
(* 1000 * end and durationMs = endMs - startMs, negative when end < start; *)
(* the buffer keeps it as stored and a flush prints it with six decimals:  *)
(* 1.0 s and 1.0025 s give 1000.000000, 1002.500000 and 2.500000.          *)
C19_MillisecondsAreExact ==
    [][ /\ \A i \in 1..Len(samples') : Stored(samples'[i])
        /\ \A t \in Threads :
             /\ Did(t, "rs_push")
                  => /\ samples'[Len(samples')].durationMs < 0
                          <=> local[t].sample.endMs < local[t].sample.startMs
                     /\ SubSeq(samples', 1, Len(samples)) = samples
             /\ Did(t, "er_write")
                  => LET rows == DataRows(Gained(local[t].fp))
                     IN  /\ RowsAreOf(rows, local[t].localSamples)
                         /\ \A i \in 1..Len(rows) : Printed(rows[i])
      ]_vars

\* a file holds the row of the sample with end before start: -2.500000
C19_Witness ==
    \E p \in Paths :
        \E i \in 1..Len(files[p].lines) :
            /\ IsRow(files[p].lines[i])
            /\ files[p].lines[i].thread_id = 1
            /\ files[p].lines[i].duration_ms = [neg |-> TRUE, whole |-> 2, micros |-> 500000]

====
